---- MODULE Spec2Model ----
(***************************************************************************)
(* Building-footprint extraction pipeline of building_xml_to_geojson:      *)
(* coordinate decoder, feature extractor, archive walker and aggregator    *)
(* of streamlit_app.py.                                                    *)
(*                                                                         *)
(* Strings are sequences of one-character strings, so that strip, split,   *)
(* startswith, endswith and float are computed and not assumed.  A Python  *)
(* call that may raise is an operator returning [raised, ...].             *)
(***************************************************************************)
EXTENDS Integers, Sequences, FiniteSets, TLC

VARIABLES
    pc,             \* position of the running code
    coord_string,   \* argument of parse_coordinates
    coord_result,   \* what parse_coordinates returned / raised
    xml_doc,        \* argument of parse_building_xml: xml_content
    xml_source,     \* argument of parse_building_xml: source_zip_name
    xml_result,     \* what parse_building_xml returned / raised
    uploaded_files, \* main: the uploaded archives, [name, data] each
    idx,            \* main: archives finished so far
    all_features,   \* main: the merged feature list
    geojson_data,   \* main: the FeatureCollection built at the end
    zip_name,       \* walker: display name of the archive being walked
    main_zip,       \* walker: the opened top-level archive
    walk_features,  \* walker: its local all_features
    zip_files,      \* walker: names ending in .zip
    xml_files,      \* walker: top-level building XML names
    sub_i,          \* walker: position in zip_files
    sub_zip,        \* walker: the opened sub-archive
    building_files, \* walker: building XML names of the sub-archive
    doc_i,          \* walker: position in building_files / xml_files
    st_log,         \* st.error / st.warning calls so far
    escaped,        \* an exception left extract_and_convert_building_files
    cli_result,     \* xml_to_geojson.py: what its walker returned / raised
    fast_result     \* xml_to_geojson_fast.py: max_files, what its walker returned / raised

coordVars == <<coord_string, coord_result>>
xmlVars == <<xml_doc, xml_source, xml_result>>
mainVars == <<uploaded_files, idx, all_features, geojson_data>>
walkVars == <<zip_name, main_zip, walk_features, zip_files, xml_files, sub_i,
              sub_zip, building_files, doc_i>>
appVars == <<mainVars, walkVars, st_log, escaped>>
cliVars == <<cli_result, fast_result>>
vars == <<pc, coordVars, xmlVars, appVars, cliVars>>

\* ---------------------------------------------------------------- bounds
MaxStrLen == 7      \* longest coordinate string explored character by character
MaxNodes == 3       \* most descendants of a building element drawn freely
MaxEntries == 2     \* most entries of a top-level archive drawn freely
MaxArchives == 2    \* most archives of a batch
MaxBld == 2         \* most elements beneath the root of a document

\* ------------------------------------------------------- string helpers
Space == " "
Digits == {"1", "2"}
CoordAlphabet == {Space, "1", "2", "x"}

\* Python None where a str is expected (Element.text of an empty element)
NoneText == <<"None">>

\* truthiness of an Optional[str]: None and "" are falsy, " " is truthy
Truthy(s) == s # NoneText /\ s # <<>>

RECURSIVE LStrip(_)
LStrip(s) == IF s # <<>> /\ Head(s) = Space THEN LStrip(Tail(s)) ELSE s

RECURSIVE RStrip(_)
RStrip(s) ==
    IF s # <<>> /\ s[Len(s)] = Space THEN RStrip(SubSeq(s, 1, Len(s) - 1)) ELSE s

\* str.strip()
Strip(s) == RStrip(LStrip(s))

\* str.split(): maximal runs of non-whitespace, in order
RECURSIVE SplitLoop(_, _, _)
SplitLoop(s, cur, out) ==
    IF s = <<>> THEN (IF cur = <<>> THEN out ELSE Append(out, cur))
    ELSE IF Head(s) = Space
         THEN SplitLoop(Tail(s), <<>>, IF cur = <<>> THEN out ELSE Append(out, cur))
         ELSE SplitLoop(Tail(s), Append(cur, Head(s)), out)

Split(s) == SplitLoop(s, <<>>, <<>>)

\* float(tok) succeeds: over CoordAlphabet exactly the non-empty digit strings
IsFloat(tok) == tok # <<>> /\ \A i \in 1..Len(tok) : tok[i] \in Digits

DigitVal(c) == IF c = "1" THEN 1 ELSE 2

\* float(tok) for a digit string
RECURSIVE ToFloat(_)
ToFloat(tok) ==
    IF tok = <<>> THEN 0
    ELSE 10 * ToFloat(SubSeq(tok, 1, Len(tok) - 1)) + DigitVal(tok[Len(tok)])

\* -------------------------------------------------- Coordinate Decoder
CoordPairSwapLost(lat, lon) == <<lat, lon>>

\* coords.append([lon, lat])
CoordPair(lat, lon) == <<lon, lat>>

\* for i in range(0, len(coord_parts), 2): i is the 1-based index here
RECURSIVE CoordLoop(_, _, _)
CoordLoop(coord_parts, i, coords) ==
    IF i > Len(coord_parts) THEN [raised |-> FALSE, coords |-> coords]
    ELSE IF i + 1 <= Len(coord_parts)
         THEN IF IsFloat(coord_parts[i]) /\ IsFloat(coord_parts[i + 1])
              THEN CoordLoop(coord_parts, i + 2,
                             Append(coords, CoordPair(ToFloat(coord_parts[i]),
                                                      ToFloat(coord_parts[i + 1]))))
              ELSE [raised |-> TRUE, coords |-> <<>>]      \* ValueError from float()
         ELSE CoordLoop(coord_parts, i + 2, coords)

ParseCoordinates(s) ==
    IF ~Truthy(s) THEN [raised |-> FALSE, coords |-> <<>>]
    ELSE CoordLoop(Split(Strip(s)), 1, <<>>)

\* ---------------------------------------------------- Feature Extractor
\* A tag, an attribute key or a file name is a sequence of pieces: "{", a
\* namespace URI, "}" and a local name are one piece each.
FGD == "http://fgd.gsi.go.jp/spec/2008/FGD_GMLSchema"
GML == "http://www.opengis.net/gml/3.2"

fgd_ns == <<"{", FGD, "}">>
gml_ns == <<"{", GML, "}">>

StartsWith(s, piece) == s # <<>> /\ s[1] = piece
EndsWith(s, piece) == s # <<>> /\ s[Len(s)] = piece
Contains(s, piece) == \E i \in 1..Len(s) : s[i] = piece

\* s.split(sep)[1]: what lies between the first and the second separator
RECURSIVE UpTo(_, _)
UpTo(s, sep) ==
    IF s = <<>> \/ Head(s) = sep THEN <<>> ELSE <<Head(s)>> \o UpTo(Tail(s), sep)

RECURSIVE After(_, _)
After(s, sep) ==
    IF s = <<>> THEN <<>> ELSE IF Head(s) = sep THEN Tail(s) ELSE After(Tail(s), sep)

SplitSecond(s, sep) == UpTo(After(s, sep), sep)

\* lines 74-77: the local-name branch is taken only by a tag that also ENDS in "}"
TagName(tag) ==
    IF StartsWith(tag, "{") /\ EndsWith(tag, "}") THEN SplitSecond(tag, "}") ELSE tag

AllowList == {<<"fid">>, <<"type">>, <<"orgGILvl">>}

\* a dict as a function; d[k] = v
Put(d, k, v) == [x \in (DOMAIN d) \cup {k} |-> IF x = k THEN v ELSE d[x]]
EmptyDict == [x \in {} |-> <<>>]

RECURSIVE ChildLoopAllDescendants(_, _)
ChildLoopAllDescendants(nodes, properties) ==
    IF nodes = <<>> THEN properties
    ELSE LET child == Head(nodes) IN
         IF TagName(child.tag) \in AllowList
         THEN ChildLoopAllDescendants(Tail(nodes),
                                      Put(properties, TagName(child.tag), child.text))
         ELSE ChildLoopAllDescendants(Tail(nodes), properties)

\* for child in building: the direct children, in document order
RECURSIVE ChildLoop(_, _)
ChildLoop(nodes, properties) ==
    IF nodes = <<>> THEN properties
    ELSE LET child == Head(nodes) IN
         IF child.direct /\ TagName(child.tag) \in AllowList
         THEN ChildLoop(Tail(nodes), Put(properties, TagName(child.tag), child.text))
         ELSE ChildLoop(Tail(nodes), properties)

\* ElementTree stores a namespaced attribute under its expanded name
AttribHas(attrib, key) == \E a \in attrib : a[1] = key
AttribGet(attrib, key) == (CHOOSE a \in attrib : a[1] = key)[2]

SourcePropsDropped(source_zip_name) == EmptyDict

\* lines 68-70: if source_zip_name: properties['source_file'] = source_zip_name
SourceProps(source_zip_name) ==
    IF Truthy(source_zip_name)
    THEN Put(EmptyDict, <<"source_file">>, source_zip_name)
    ELSE EmptyDict

\* lines 66-84: the properties of one building element
Properties(building, source_zip_name) ==
    LET withChildren == ChildLoop(building.nodes, SourceProps(source_zip_name))
    IN IF AttribHas(building.attrib, <<"gml:id">>)
       THEN Put(withChildren, <<"gml_id">>, AttribGet(building.attrib, <<"gml:id">>))
       ELSE withChildren

Feature(coords, properties) ==
    [type |-> "Feature",
     geometry |-> [type |-> "Polygon", coordinates |-> <<coords>>],
     properties |-> properties]

FindLast(nodes, tag) ==
    IF \E i \in 1..Len(nodes) : nodes[i].tag = tag
    THEN CHOOSE i \in 1..Len(nodes) :
            nodes[i].tag = tag /\ \A j \in (i + 1)..Len(nodes) : nodes[j].tag # tag
    ELSE 0

\* element.find('.//' + tag): index of the first descendant with that tag, 0 if none
Find(nodes, tag) ==
    IF \E i \in 1..Len(nodes) : nodes[i].tag = tag
    THEN CHOOSE i \in 1..Len(nodes) :
            nodes[i].tag = tag /\ \A j \in 1..(i - 1) : nodes[j].tag # tag
    ELSE 0

\* line 64: a polygon needs at least 3 points
MinPoints == 3

HasEnoughPointsOffByOne(coords) == Len(coords) >= MinPoints - 1

\* len(coords) >= 3
HasEnoughPoints(coords) == Len(coords) >= MinPoints

\* lines 58-96: the loop over the building elements; a ValueError of
\* parse_coordinates leaves the function
RECURSIVE BuildingLoop(_, _, _)
BuildingLoop(building_elements, source_zip_name, features) ==
    IF building_elements = <<>> THEN [raised |-> FALSE, features |-> features]
    ELSE LET building == Head(building_elements)
             poslist == Find(building.nodes, gml_ns \o <<"posList">>)
         IN IF poslist # 0 /\ Truthy(building.nodes[poslist].text)
            THEN LET r == ParseCoordinates(building.nodes[poslist].text) IN
                 IF r.raised THEN [raised |-> TRUE, features |-> <<>>]
                 ELSE IF HasEnoughPoints(r.coords)
                      THEN BuildingLoop(Tail(building_elements), source_zip_name,
                               Append(features,
                                      Feature(r.coords, Properties(building, source_zip_name))))
                      ELSE BuildingLoop(Tail(building_elements), source_zip_name, features)
            ELSE BuildingLoop(Tail(building_elements), source_zip_name, features)

\* root.findall('.//' + tag): the elements beneath the root with that tag
FindAll(root, tag) == SelectSeq(root.elems, LAMBDA e : e.tag = tag)

ParseBuildingXmlNoCatch(xml_content, source_zip_name) ==
    IF ~xml_content.wellformed
    THEN [raised |-> TRUE, error |-> FALSE, features |-> <<>>]
    ELSE LET r == BuildingLoop(FindAll(xml_content.root, fgd_ns \o <<"BldA">>),
                               source_zip_name, <<>>)
         IN [raised |-> r.raised, error |-> FALSE, features |-> r.features]

\* parse_building_xml: ET.ParseError is caught (st.error, return []),
\* anything else propagates
ParseBuildingXml(xml_content, source_zip_name) ==
    IF ~xml_content.wellformed
    THEN [raised |-> FALSE, error |-> TRUE, features |-> <<>>]
    ELSE LET r == BuildingLoop(FindAll(xml_content.root, fgd_ns \o <<"BldA">>),
                               source_zip_name, <<>>)
         IN [raised |-> r.raised, error |-> FALSE, features |-> r.features]

\* ------------------------------------------------------- Archive Walker
\* An archive entry is [name, content]; content is [kind, entries, doc] with
\* kind "zip" (a readable archive), "xml" (UTF-8 text) or "bytes" (neither).
ZipContent(entries) == [kind |-> "zip", entries |-> entries]
XmlContent(doc) == [kind |-> "xml", doc |-> doc]
BytesContent == [kind |-> "bytes"]
NoZip == [kind |-> "none"]

Entry(name, content) == [name |-> name, content |-> content]

\* ZipFile.namelist()
NameList(zip) == [i \in 1..Len(zip.entries) |-> zip.entries[i].name]

\* ZipFile.open(name).read(): the entry of that name
Read(zip, name) ==
    zip.entries[CHOOSE i \in 1..Len(zip.entries) : zip.entries[i].name = name].content

\* f.endswith('.zip')
IsZipFile(f) == EndsWith(f, ".zip")

IsBuildingFileBySuffix(f) == EndsWith(f, ".xml")

\* '-BldA-' in f and f.endswith('.xml')
IsBuildingFile(f) == Contains(f, "-BldA-") /\ EndsWith(f, ".xml")

BranchFlatFirst(zips, xmls) ==
    IF xmls # <<>> THEN "flat" ELSE IF zips # <<>> THEN "nested" ELSE "none"

\* lines 116, 146, 161: if zip_files / elif xml_files / else
Branch(zips, xmls) ==
    IF zips # <<>> THEN "nested" ELSE IF xmls # <<>> THEN "flat" ELSE "none"

Exceptions == {"BadZipFile", "UnicodeDecodeError", "ValueError"}

ExceptDocumentNotValueError(exc) == exc \in Exceptions \ {"ValueError"}

\* lines 138, 157: except Exception around one document
ExceptDocument(exc) == exc \in Exceptions

ExceptSubZipNotBadZip(exc) == exc \in Exceptions \ {"BadZipFile"}

\* line 141: except Exception around one sub-archive
ExceptSubZip(exc) == exc \in Exceptions

ExceptMainZipNotBadZip(exc) == exc \in Exceptions \ {"BadZipFile"}

\* line 164: except Exception around the whole walk
ExceptMainZip(exc) == exc \in Exceptions

ExtendReplaces(list, features) == features

ExtendPrepends(list, features) == features \o list

\* lines 136, 155: all_features.extend(features)
Extend(list, features) == list \o features

MergePrepends(list, features) == features \o list

\* line 215: all_features.extend(features)
Merge(list, features) == list \o features

Log(fn, site, who) == [fn |-> fn, site |-> site, who |-> who]

\* lines 131-135 / 150-154: read, decode and parse one entry
\*   [exc: "" or the exception raised, error: st.error was called, features]
ConvertEntry(zip, building_file, name) ==
    LET content == Read(zip, building_file) IN
    IF content.kind # "xml"
    THEN [exc |-> "UnicodeDecodeError", error |-> FALSE, features |-> <<>>]
    ELSE LET r == ParseBuildingXml(content.doc, name) IN
         [exc |-> IF r.raised THEN "ValueError" ELSE "",
          error |-> r.error, features |-> r.features]

ParseErrorLog(r) == IF r.error THEN <<Log("error", "parse_building_xml", <<>>)>> ELSE <<>>

\* ------------------------------------ command-line walker: xml_to_geojson.py
\* lines 33-50 are the text of streamlit_app.py lines 25-42
CliParseCoordinates(s) == ParseCoordinates(s)

\* parse_gml_poslist: coords = []; if the element has text, decode it
CliParseGmlPoslist(poslist_element) ==
    IF Truthy(poslist_element.text)
    THEN CliParseCoordinates(poslist_element.text)
    ELSE [raised |-> FALSE, coords |-> <<>>]

\* create_geojson_feature, lines 70-86: the properties, no source_file
CliProperties(building_element) ==
    LET withChildren == ChildLoop(building_element.nodes, EmptyDict)
    IN IF AttribHas(building_element.attrib, <<"gml:id">>)
       THEN Put(withChildren, <<"gml_id">>, AttribGet(building_element.attrib, <<"gml:id">>))
       ELSE withChildren

CliHasGeometryOffByOne(geometry_coords) ==
    geometry_coords # <<>> /\ Len(geometry_coords) >= MinPoints - 1

\* line 89: if geometry_coords and len(geometry_coords) >= 3
CliHasGeometry(geometry_coords) ==
    geometry_coords # <<>> /\ Len(geometry_coords) >= MinPoints

\* create_geojson_feature: <<feature>>, or <<>> for None
CliCreateGeojsonFeature(building_element, geometry_coords) ==
    LET properties == CliProperties(building_element) IN
    IF CliHasGeometry(geometry_coords)
    THEN <<Feature(geometry_coords, properties)>>
    ELSE <<>>

\* parse_building_xml, lines 118-129
RECURSIVE CliBuildingLoop(_, _)
CliBuildingLoop(building_elements, features) ==
    IF building_elements = <<>> THEN [raised |-> FALSE, features |-> features]
    ELSE LET building == Head(building_elements)
             poslist == Find(building.nodes, gml_ns \o <<"posList">>)
             r == IF poslist # 0 /\ Truthy(building.nodes[poslist].text)
                  THEN CliParseGmlPoslist(building.nodes[poslist])
                  ELSE [raised |-> FALSE, coords |-> <<>>]
         IN IF r.raised THEN [raised |-> TRUE, features |-> <<>>]
            ELSE CliBuildingLoop(Tail(building_elements),
                                 features \o CliCreateGeojsonFeature(building, r.coords))

\* parse_building_xml: ET.ParseError is caught (print, return [])
CliParseBuildingXml(xml_content) ==
    IF ~xml_content.wellformed
    THEN [raised |-> FALSE, features |-> <<>>]
    ELSE CliBuildingLoop(FindAll(xml_content.root, fgd_ns \o <<"BldA">>), <<>>)

\* lines 163-167: read, decode and parse one entry
CliConvertEntry(zip, building_file) ==
    LET content == Read(zip, building_file) IN
    IF content.kind # "xml"
    THEN [exc |-> "UnicodeDecodeError", features |-> <<>>]
    ELSE LET r == CliParseBuildingXml(content.doc) IN
         [exc |-> IF r.raised THEN "ValueError" ELSE "", features |-> r.features]

\* line 172: except Exception around one document
CliExceptDocument(exc) == exc \in Exceptions

\* lines 158-174: for building_file in building_files
RECURSIVE CliDocumentLoop(_, _, _)
CliDocumentLoop(zip, files, features) ==
    IF files = <<>> THEN [raised |-> FALSE, features |-> features]
    ELSE LET r == CliConvertEntry(zip, Head(files)) IN
         IF r.exc = "" THEN CliDocumentLoop(zip, Tail(files), features \o r.features)
         ELSE IF CliExceptDocument(r.exc) THEN CliDocumentLoop(zip, Tail(files), features)
         ELSE [raised |-> TRUE, features |-> <<>>]

\* lines 146-174: for sub_zip_name in zip_files; nothing catches a
\* sub-archive that cannot be opened
RECURSIVE CliSubZipLoop(_, _, _)
CliSubZipLoop(zip, zips, features) ==
    IF zips = <<>> THEN [raised |-> FALSE, features |-> features]
    ELSE LET content == Read(zip, Head(zips)) IN
         IF content.kind # "zip" THEN [raised |-> TRUE, features |-> <<>>]
         ELSE LET r == CliDocumentLoop(content,
                                       SelectSeq(NameList(content), IsBuildingFile),
                                       features)
              IN IF r.raised THEN r ELSE CliSubZipLoop(zip, Tail(zips), r.features)

\* extract_and_convert_building_files(zip_path): data is what the path holds
CliWalk(data) ==
    IF data.kind # "zip" THEN [raised |-> TRUE, features |-> <<>>]
    ELSE CliSubZipLoop(data, SelectSeq(NameList(data), IsZipFile), <<>>)

\* ------------------------------- command-line walker: xml_to_geojson_fast.py
\* lines 74-88: the properties, no source_file
FastProperties(building) ==
    LET withChildren == ChildLoop(building.nodes, EmptyDict)
    IN IF AttribHas(building.attrib, <<"gml:id">>)
       THEN Put(withChildren, <<"gml_id">>, AttribGet(building.attrib, <<"gml:id">>))
       ELSE withChildren

\* lines 63-100
RECURSIVE FastBuildingLoop(_, _)
FastBuildingLoop(building_elements, features) ==
    IF building_elements = <<>> THEN [raised |-> FALSE, features |-> features]
    ELSE LET building == Head(building_elements)
             poslist == Find(building.nodes, gml_ns \o <<"posList">>)
         IN IF poslist # 0 /\ Truthy(building.nodes[poslist].text)
            THEN LET r == ParseCoordinates(building.nodes[poslist].text) IN
                 IF r.raised THEN [raised |-> TRUE, features |-> <<>>]
                 ELSE IF HasEnoughPoints(r.coords)
                      THEN FastBuildingLoop(Tail(building_elements),
                               Append(features, Feature(r.coords, FastProperties(building))))
                      ELSE FastBuildingLoop(Tail(building_elements), features)
            ELSE FastBuildingLoop(Tail(building_elements), features)

FastParseBuildingXml(xml_content) ==
    IF ~xml_content.wellformed
    THEN [raised |-> FALSE, features |-> <<>>]
    ELSE FastBuildingLoop(FindAll(xml_content.root, fgd_ns \o <<"BldA">>), <<>>)

FastConvertEntry(zip, building_file) ==
    LET content == Read(zip, building_file) IN
    IF content.kind # "xml"
    THEN [exc |-> "UnicodeDecodeError", features |-> <<>>]
    ELSE LET r == FastParseBuildingXml(content.doc) IN
         [exc |-> IF r.raised THEN "ValueError" ELSE "", features |-> r.features]

\* line 146: except Exception around one document
FastExceptDocument(exc) == exc \in Exceptions

RECURSIVE FastDocumentLoop(_, _, _)
FastDocumentLoop(zip, files, features) ==
    IF files = <<>> THEN [raised |-> FALSE, features |-> features]
    ELSE LET r == FastConvertEntry(zip, Head(files)) IN
         IF r.exc = "" THEN FastDocumentLoop(zip, Tail(files), features \o r.features)
         ELSE IF FastExceptDocument(r.exc) THEN FastDocumentLoop(zip, Tail(files), features)
         ELSE [raised |-> TRUE, features |-> <<>>]

RECURSIVE FastSubZipLoop(_, _, _)
FastSubZipLoop(zip, zips, features) ==
    IF zips = <<>> THEN [raised |-> FALSE, features |-> features]
    ELSE LET content == Read(zip, Head(zips)) IN
         IF content.kind # "zip" THEN [raised |-> TRUE, features |-> <<>>]
         ELSE LET r == FastDocumentLoop(content,
                                        SelectSeq(NameList(content), IsBuildingFile),
                                        features)
              IN IF r.raised THEN r ELSE FastSubZipLoop(zip, Tail(zips), r.features)

\* lines 115-116: if max_files: zip_files = zip_files[:max_files]
\* (max_files = 0 stands for None as well: both are falsy)
FastLimit(zips, max_files) ==
    IF max_files # 0
    THEN SubSeq(zips, 1, IF max_files < Len(zips) THEN max_files ELSE Len(zips))
    ELSE zips

\* extract_and_convert_building_files(zip_path, max_files)
FastWalk(data, max_files) ==
    IF data.kind # "zip" THEN [raised |-> TRUE, features |-> <<>>]
    ELSE FastSubZipLoop(data, FastLimit(SelectSeq(NameList(data), IsZipFile), max_files), <<>>)

\* ------------------------------------------------------- input values
Text(tokens) ==
    LET F[i \in 0..Len(tokens)] ==
            IF i = 0 THEN <<>>
            ELSE IF i = 1 THEN <<tokens[1]>> ELSE F[i - 1] \o <<Space, tokens[i]>>
    IN F[Len(tokens)]

TextA == Text(<<"1", "2", "2", "1", "1", "1">>)                 \* 3 pairs
TextB == Text(<<"2", "2", "1", "2", "2", "1", "2", "2">>)       \* 4 pairs
TextShort == Text(<<"1", "2", "2", "1">>)                       \* 2 pairs
TextBad == Text(<<"1", "2", "x", "1", "1", "1">>)               \* a paired token is not a number
TextOddBad == Text(<<"1", "2", "2", "1", "1", "1", "x">>)       \* only the unpaired token is not a number

Node(tag, text, direct) == [tag |-> tag, text |-> text, direct |-> direct]
Element(tag, attrib, nodes) == [tag |-> tag, attrib |-> attrib, nodes |-> nodes]

PosList(text) == Node(gml_ns \o <<"posList">>, text, FALSE)

NodeKinds ==
    {PosList(t) : t \in {TextA, TextShort, TextBad, NoneText}} \cup
    {Node(<<"posList">>, TextB, FALSE),              \* a posList outside the GML namespace
     Node(fgd_ns \o <<"fid">>, <<"9">>, TRUE),       \* namespace-qualified child
     Node(<<"fid">>, <<"7">>, TRUE),                 \* unqualified child
     Node(<<"type">>, NoneText, TRUE),               \* <type/>: no text
     Node(<<"name">>, <<"n">>, TRUE),                \* child outside the allow-list
     Node(<<"orgGILvl">>, <<"25000">>, FALSE)}       \* grandchild

AttribKinds ==
    {{}, {<<gml_ns \o <<"id">>, <<"K1">>>>}, {<<<<"id">>, <<"K2">>>>}}

BldATag == fgd_ns \o <<"BldA">>

SeqsUpTo(S, n) == UNION {[1..k -> S] : k \in 0..n}

BldGoodA == Element(BldATag, {}, <<Node(<<"fid">>, <<"7">>, TRUE), PosList(TextA)>>)
BldGoodB == Element(BldATag, {<<gml_ns \o <<"id">>, <<"K1">>>>},
                    <<Node(fgd_ns \o <<"fid">>, <<"9">>, TRUE), PosList(TextB)>>)
BldShort == Element(BldATag, {}, <<PosList(TextShort)>>)
BldBad == Element(BldATag, {}, <<PosList(TextBad)>>)
BldOddBad == Element(BldATag, {}, <<PosList(TextOddBad)>>)
BldNoGeom == Element(BldATag, {}, <<Node(<<"fid">>, <<"7">>, TRUE)>>)
BldNoText == Element(BldATag, {}, <<PosList(NoneText), PosList(TextA)>>)   \* <gml:posList/> first
BldTwoLists == Element(BldATag, {}, <<PosList(TextA), PosList(TextBad)>>)   \* two coordinate lists
ElemOther == Element(fgd_ns \o <<"BldL">>, {}, <<PosList(TextA)>>)    \* another layer
ElemPlainBldA == Element(<<"BldA">>, {}, <<PosList(TextA)>>)           \* BldA outside the FGD namespace

ElementKinds ==
    {BldGoodA, BldGoodB, BldShort, BldBad, BldOddBad, BldNoGeom, BldNoText, BldTwoLists,
     ElemOther, ElemPlainBldA}

Root(tag, nodes, elems) == [tag |-> tag, attrib |-> {}, nodes |-> nodes, elems |-> elems]
Document(root) == [wellformed |-> TRUE, root |-> root]

\* text that ET.fromstring rejects
Malformed == [wellformed |-> FALSE, root |-> Root(<<>>, <<>>, <<>>)]

DatasetTag == fgd_ns \o <<"Dataset">>

NameA == <<"A", ".zip">>
NameB == <<"B", ".zip">>

\* documents and archives the walker is run on
DocA == Document(Root(DatasetTag, <<>>, <<BldGoodA, BldShort>>))            \* 1 feature
DocB == Document(Root(DatasetTag, <<>>, <<BldGoodB, BldGoodA>>))            \* 2 features
DocBad == Document(Root(DatasetTag, <<>>, <<BldGoodA, BldBad, BldGoodB>>))  \* ValueError at the 2nd

Stems == <<"e1", "e2", "e3", "e4", "e5">>
KindZip == <<".zip">>
KindBldXml == <<"-BldA-", ".xml">>
KindOtherXml == <<"-RdEdg-", ".xml">>
KindBldTxt == <<"-BldA-", ".txt">>

\* items are <<kind of name, content>>; the entry at position i is named after i
Named(items) ==
    [i \in 1..Len(items) |-> Entry(<<Stems[i]>> \o items[i][1], items[i][2])]

SubOne == <<<<KindBldXml, XmlContent(DocA)>>>>
SubMal3 == <<<<KindBldXml, XmlContent(DocA)>>, <<KindBldXml, XmlContent(Malformed)>>,
             <<KindBldXml, XmlContent(DocB)>>>>
SubMix == <<<<KindOtherXml, XmlContent(DocB)>>, <<KindBldXml, XmlContent(DocA)>>,
            <<KindBldTxt, XmlContent(DocB)>>>>
SubBad == <<<<KindBldXml, XmlContent(DocB)>>, <<KindBldXml, XmlContent(DocBad)>>,
            <<KindBldXml, XmlContent(DocA)>>>>
SubBytes == <<<<KindBldXml, BytesContent>>, <<KindBldXml, XmlContent(DocB)>>>>

SubContents ==
    {ZipContent(Named(x)) : x \in {<<>>, SubOne, SubMal3, SubMix, SubBad, SubBytes}}
        \cup {BytesContent}

TopItems ==
    {<<KindZip, c>> : c \in SubContents} \cup
    {<<KindBldXml, c>> : c \in {XmlContent(DocA), XmlContent(DocB), XmlContent(DocBad),
                                XmlContent(Malformed), BytesContent}} \cup
    {<<KindOtherXml, XmlContent(DocB)>>}

Upload(name, data) == [name |-> name, data |-> data]

BatchNames == <<NameA, NameB, <<"C", ".zip">>, <<"D", ".zip">>>>

BatchData ==
    {BytesContent,
     ZipContent(<<>>),
     ZipContent(Named(<<<<KindZip, ZipContent(Named(SubMal3))>>, <<KindZip, BytesContent>>>>)),
     ZipContent(Named(<<<<KindBldXml, XmlContent(DocB)>>>>))}

\* ------------------------------------------- specification: decoder alone
StringsUpTo(n) == UNION {[1..k -> CoordAlphabet] : k \in 0..n}

NoCoords == [raised |-> FALSE, coords |-> <<>>]
NoFeatures == [raised |-> FALSE, error |-> FALSE, features |-> <<>>]

XmlIdle ==
    /\ xml_doc = Malformed
    /\ xml_source = NoneText
    /\ xml_result = NoFeatures

CoordIdle ==
    /\ coord_string = <<>>
    /\ coord_result = NoCoords

NoOutput == [type |-> "none", features |-> <<>>]

NoWalk == [raised |-> FALSE, features |-> <<>>]
NoFastWalk == [max_files |-> 0, raised |-> FALSE, features |-> <<>>]

CliIdle ==
    /\ cli_result = NoWalk
    /\ fast_result = NoFastWalk

WalkIdle ==
    /\ zip_name = <<>>
    /\ main_zip = NoZip
    /\ walk_features = <<>>
    /\ zip_files = <<>>
    /\ xml_files = <<>>
    /\ sub_i = 0
    /\ sub_zip = NoZip
    /\ building_files = <<>>
    /\ doc_i = 0

AppIdle ==
    /\ uploaded_files = <<>>
    /\ idx = 0
    /\ all_features = <<>>
    /\ geojson_data = NoOutput
    /\ WalkIdle
    /\ st_log = <<>>
    /\ escaped = FALSE

InitCoord ==
    /\ pc = "coord_call"
    /\ coord_string \in StringsUpTo(MaxStrLen)
    /\ coord_result = NoCoords
    /\ XmlIdle
    /\ AppIdle
    /\ CliIdle

CallParseCoordinates ==
    /\ pc = "coord_call"
    /\ coord_result' = ParseCoordinates(coord_string)
    /\ pc' = "coord_done"
    /\ UNCHANGED <<coord_string, xmlVars, appVars, cliVars>>

NextCoord == CallParseCoordinates

SpecCoord == InitCoord /\ [][NextCoord]_vars

\* ------------------------------------------ specification: extractor alone
\* one building element whose descendants are drawn freely
DrawFreeBuilding ==
    \E a \in AttribKinds, ns \in SeqsUpTo(NodeKinds, MaxNodes) :
        /\ xml_doc = Document(Root(DatasetTag, <<>>, <<Element(BldATag, a, ns)>>))
        /\ xml_source = NameA

\* several elements of fixed kinds, beneath either kind of root
DrawElements ==
    \E t \in {DatasetTag, BldATag}, ns \in {<<>>, <<PosList(TextB)>>},
       es \in SeqsUpTo(ElementKinds, MaxBld) :
        /\ xml_doc = Document(Root(t, ns, es))
        /\ xml_source \in {NoneText, NameA}

DrawMalformed ==
    /\ xml_doc = Malformed
    /\ xml_source \in {NoneText, NameA}

InitXml ==
    /\ pc = "xml_call"
    /\ (DrawFreeBuilding \/ DrawElements \/ DrawMalformed)
    /\ xml_result = NoFeatures
    /\ CoordIdle
    /\ AppIdle
    /\ CliIdle

CallParseBuildingXml ==
    /\ pc = "xml_call"
    /\ xml_result' = ParseBuildingXml(xml_doc, xml_source)
    /\ pc' = "xml_done"
    /\ UNCHANGED <<xml_doc, xml_source, coordVars, appVars, cliVars>>

NextXml == CallParseBuildingXml

SpecXml == InitXml /\ [][NextXml]_vars

\* --------------------------------- specification: main and the walker
\* one archive whose entries are drawn freely
DrawArchive ==
    \E items \in SeqsUpTo(TopItems, MaxEntries) :
        uploaded_files = <<Upload(NameA, ZipContent(Named(items)))>>

\* a batch of archives of fixed kinds, named after their position
DrawBatch ==
    \E n \in 1..MaxArchives : \E data \in [1..n -> BatchData] :
        uploaded_files = [i \in 1..n |-> Upload(BatchNames[i], data[i])]

Init ==
    /\ pc = "main_loop"
    /\ (DrawArchive \/ DrawBatch)
    /\ idx = 0
    /\ all_features = <<>>
    /\ geojson_data = NoOutput
    /\ WalkIdle
    /\ st_log = <<>>
    /\ escaped = FALSE
    /\ CoordIdle
    /\ XmlIdle
    /\ CliIdle

others == <<coordVars, xmlVars, cliVars, uploaded_files, geojson_data>>

\* lines 207-214: the next uploaded file is read and handed to the walker
CallWalker ==
    /\ pc = "main_loop"
    /\ idx < Len(uploaded_files)
    /\ zip_name' = uploaded_files[idx + 1].name
    /\ walk_features' = <<>>
    /\ main_zip' = NoZip
    /\ zip_files' = <<>>
    /\ xml_files' = <<>>
    /\ sub_i' = 0
    /\ sub_zip' = NoZip
    /\ building_files' = <<>>
    /\ doc_i' = 0
    /\ pc' = "walk_open"
    /\ UNCHANGED <<others, idx, all_features, st_log, escaped>>

\* an exception reaches the handler of line 164, or leaves the call
ToMainHandler(exc) ==
    /\ IF ExceptMainZip(exc)
       THEN /\ st_log' = Append(st_log, Log("error", "main_zip", zip_name))
            /\ pc' = "walk_return"
            /\ UNCHANGED escaped
       ELSE /\ escaped' = TRUE
            /\ pc' = "crashed"
            /\ UNCHANGED st_log
    /\ main_zip' = NoZip
    /\ sub_zip' = NoZip
    /\ UNCHANGED <<others, idx, all_features, zip_name, walk_features, zip_files,
                   xml_files, sub_i, building_files, doc_i>>

\* an exception reaches the handler of line 141, or goes further out
ToSubHandler(exc) ==
    IF ExceptSubZip(exc)
    THEN /\ st_log' = Append(st_log, Log("warning", "sub_zip", zip_files[sub_i]))
         /\ sub_i' = sub_i + 1
         /\ sub_zip' = NoZip
         /\ pc' = "walk_sub"
         /\ UNCHANGED <<others, idx, all_features, zip_name, main_zip, walk_features,
                        zip_files, xml_files, building_files, doc_i, escaped>>
    ELSE ToMainHandler(exc)

\* line 109: the bytes are not an archive
OpenUnreadable ==
    /\ pc = "walk_open"
    /\ uploaded_files[idx + 1].data.kind # "zip"
    /\ ToMainHandler("BadZipFile")

\* lines 109-116, 146, 161: open, list and classify
OpenMainZip ==
    /\ pc = "walk_open"
    /\ uploaded_files[idx + 1].data.kind = "zip"
    /\ LET zip == uploaded_files[idx + 1].data
           file_list == NameList(zip)
           zips == SelectSeq(file_list, IsZipFile)
           xmls == SelectSeq(file_list, IsBuildingFile)
           branch == Branch(zips, xmls)
       IN /\ main_zip' = IF branch = "none" THEN NoZip ELSE zip
          /\ zip_files' = zips
          /\ xml_files' = xmls
          /\ sub_i' = IF branch = "nested" THEN 1 ELSE 0
          /\ doc_i' = IF branch = "flat" THEN 1 ELSE 0
          /\ pc' = IF branch = "nested" THEN "walk_sub"
                   ELSE IF branch = "flat" THEN "walk_direct" ELSE "walk_return"
          /\ st_log' = IF branch = "none"
                       THEN Append(st_log, Log("warning", "no_building_data", zip_name))
                       ELSE st_log
    /\ UNCHANGED <<others, idx, all_features, zip_name, walk_features, sub_zip,
                   building_files, escaped>>

\* lines 117-126: the next sub-archive is opened and listed
OpenSubZip ==
    /\ pc = "walk_sub"
    /\ sub_i <= Len(zip_files)
    /\ LET content == Read(main_zip, zip_files[sub_i]) IN
       IF content.kind = "zip"
       THEN /\ sub_zip' = content
            /\ building_files' = SelectSeq(NameList(content), IsBuildingFile)
            /\ doc_i' = 1
            /\ pc' = "walk_subdoc"
            /\ UNCHANGED <<others, idx, all_features, zip_name, main_zip, walk_features,
                           zip_files, xml_files, sub_i, st_log, escaped>>
       ELSE ToSubHandler("BadZipFile")

\* lines 128-140: one building file of the sub-archive
ConvertSubDocument ==
    /\ pc = "walk_subdoc"
    /\ doc_i <= Len(building_files)
    /\ LET r == ConvertEntry(sub_zip, building_files[doc_i], zip_name) IN
       IF r.exc = ""
       THEN /\ walk_features' = Extend(walk_features, r.features)
            /\ st_log' = st_log \o ParseErrorLog(r)
            /\ doc_i' = doc_i + 1
            /\ UNCHANGED <<others, pc, idx, all_features, zip_name, main_zip, zip_files,
                           xml_files, sub_i, sub_zip, building_files, escaped>>
       ELSE IF ExceptDocument(r.exc)
       THEN /\ st_log' = Append(st_log, Log("warning", "document",
                                            zip_files[sub_i] \o <<"/">> \o building_files[doc_i]))
            /\ doc_i' = doc_i + 1
            /\ UNCHANGED <<others, pc, idx, all_features, zip_name, main_zip, walk_features,
                           zip_files, xml_files, sub_i, sub_zip, building_files, escaped>>
       ELSE ToSubHandler(r.exc)

\* the sub-archive has no building file left: on to the next sub-archive
CloseSubZip ==
    /\ pc = "walk_subdoc"
    /\ doc_i > Len(building_files)
    /\ sub_i' = sub_i + 1
    /\ sub_zip' = NoZip
    /\ pc' = "walk_sub"
    /\ UNCHANGED <<others, idx, all_features, zip_name, main_zip, walk_features, zip_files,
                   xml_files, building_files, doc_i, st_log, escaped>>

\* lines 147-159: one building file of a flat archive
ConvertDirectDocument ==
    /\ pc = "walk_direct"
    /\ doc_i <= Len(xml_files)
    /\ LET r == ConvertEntry(main_zip, xml_files[doc_i], zip_name) IN
       IF r.exc = ""
       THEN /\ walk_features' = Extend(walk_features, r.features)
            /\ st_log' = st_log \o ParseErrorLog(r)
            /\ doc_i' = doc_i + 1
            /\ UNCHANGED <<others, pc, idx, all_features, zip_name, main_zip, zip_files,
                           xml_files, sub_i, sub_zip, building_files, escaped>>
       ELSE IF ExceptDocument(r.exc)
       THEN /\ st_log' = Append(st_log, Log("warning", "document", xml_files[doc_i]))
            /\ doc_i' = doc_i + 1
            /\ UNCHANGED <<others, pc, idx, all_features, zip_name, main_zip, walk_features,
                           zip_files, xml_files, sub_i, sub_zip, building_files, escaped>>
       ELSE ToMainHandler(r.exc)

\* the loop over zip_files or xml_files is exhausted: the archive is closed
CloseMainZip ==
    /\ \/ pc = "walk_sub" /\ sub_i > Len(zip_files)
       \/ pc = "walk_direct" /\ doc_i > Len(xml_files)
    /\ main_zip' = NoZip
    /\ pc' = "walk_return"
    /\ UNCHANGED <<others, idx, all_features, zip_name, walk_features, zip_files, xml_files,
                   sub_i, sub_zip, building_files, doc_i, st_log, escaped>>

\* lines 167, 214-215: return all_features; main extends its own list
ReturnToMain ==
    /\ pc = "walk_return"
    /\ all_features' = Merge(all_features, walk_features)
    /\ idx' = idx + 1
    /\ pc' = "main_loop"
    /\ UNCHANGED <<others, zip_name, main_zip, walk_features, zip_files, xml_files, sub_i,
                   sub_zip, building_files, doc_i, st_log, escaped>>

HasOutputAlways(features) == TRUE

\* line 223: if all_features
HasOutput(features) == features # <<>>

\* lines 225-228: geojson_data
FeatureCollection(features) == [type |-> "FeatureCollection", features |-> features]

\* lines 223-274: the batch is over
FinishBatch ==
    /\ pc = "main_loop"
    /\ idx = Len(uploaded_files)
    /\ IF HasOutput(all_features)
       THEN /\ geojson_data' = FeatureCollection(all_features)
            /\ UNCHANGED st_log
       ELSE /\ st_log' = Append(st_log, Log("warning", "no_features", <<>>))
            /\ UNCHANGED geojson_data
    /\ pc' = "done"
    /\ UNCHANGED <<coordVars, xmlVars, cliVars, uploaded_files, idx, all_features, walkVars,
                   escaped>>

Next ==
    \/ CallWalker
    \/ OpenUnreadable
    \/ OpenMainZip
    \/ OpenSubZip
    \/ ConvertSubDocument
    \/ CloseSubZip
    \/ ConvertDirectDocument
    \/ CloseMainZip
    \/ ReturnToMain
    \/ FinishBatch

Spec == Init /\ [][Next]_vars

\* ------------------- specification: the three walkers on the same archive
\* the archive on disk is also what is uploaded
InitCli ==
    /\ pc = "main_loop"
    /\ (DrawArchive \/ uploaded_files = <<Upload(NameA, BytesContent)>>)
    /\ idx = 0
    /\ all_features = <<>>
    /\ geojson_data = NoOutput
    /\ WalkIdle
    /\ st_log = <<>>
    /\ escaped = FALSE
    /\ CoordIdle
    /\ XmlIdle
    /\ CliIdle

\* xml_to_geojson.py main, line 193
CallCliWalker ==
    /\ pc = "done"
    /\ cli_result' = CliWalk(uploaded_files[1].data)
    /\ pc' = "cli_done"
    /\ UNCHANGED <<coordVars, xmlVars, appVars, fast_result>>

\* xml_to_geojson_fast.py main, line 168: --max-files absent or given
MaxFilesValues == {0, 1}

CallFastWalker ==
    /\ pc = "cli_done"
    /\ \E max_files \in MaxFilesValues :
          LET r == FastWalk(uploaded_files[1].data, max_files) IN
          fast_result' = [max_files |-> max_files, raised |-> r.raised,
                          features |-> r.features]
    /\ pc' = "fast_done"
    /\ UNCHANGED <<coordVars, xmlVars, appVars, cli_result>>

NextCli ==
    \/ Next
    \/ CallCliWalker
    \/ CallFastWalker

SpecCli == InitCli /\ [][NextCli]_vars

\* ------------------------------------------------------------- claims
\* tokens of a string, stated by position: a token starts where a
\* non-space character follows the start of the string or a space
TokenStarts(s) ==
    {i \in 1..Len(s) : s[i] # Space /\ (i = 1 \/ s[i - 1] = Space)}

TokenEnd(s, i) ==
    CHOOSE j \in i..Len(s) :
        /\ \A m \in i..j : s[m] # Space
        /\ (j = Len(s) \/ s[j + 1] = Space)

NthStart(s, k) ==
    CHOOSE i \in TokenStarts(s) : Cardinality({j \in TokenStarts(s) : j <= i}) = k

TokenAt(s, k) == SubSeq(s, NthStart(s, k), TokenEnd(s, NthStart(s, k)))

NumTokens(s) == Cardinality(TokenStarts(s))

RECURSIVE Pow10(_)
Pow10(n) == IF n = 0 THEN 1 ELSE 10 * Pow10(n - 1)

RECURSIVE SumOver(_, _)
SumOver(S, f) ==
    IF S = {} THEN 0
    ELSE LET x == CHOOSE y \in S : TRUE IN f[x] + SumOver(S \ {x}, f)

\* decimal value of a digit string, by place value
Numeral(tok) ==
    SumOver(1..Len(tok),
            [i \in 1..Len(tok) |-> DigitVal(tok[i]) * Pow10(Len(tok) - i)])

AllNumeric(s) ==
    \A k \in 1..NumTokens(s) :
        \A i \in 1..Len(TokenAt(s, k)) : TokenAt(s, k)[i] \in Digits

\* C3: n numeric tokens decode to floor(n/2) pairs in input order, pair k
\* being [t[2k+1], t[2k]] (0-based); a trailing unpaired token is dropped
\* and an empty or all-whitespace string gives the empty sequence.
C3_Decode ==
    (pc = "coord_done" /\ AllNumeric(coord_string)) =>
        /\ ~coord_result.raised
        /\ Len(coord_result.coords) = NumTokens(coord_string) \div 2
        /\ \A k \in 1..Len(coord_result.coords) :
               coord_result.coords[k] =
                   <<Numeral(TokenAt(coord_string, 2 * k)),
                     Numeral(TokenAt(coord_string, 2 * k - 1))>>

\* an odd number (at least 3) of numeric tokens with distinct values in a
\* pair has been decoded
C3_Witness ==
    /\ pc = "coord_done"
    /\ AllNumeric(coord_string)
    /\ NumTokens(coord_string) = 3
    /\ Len(coord_result.coords) = 1
    /\ coord_result.coords[1][1] # coord_result.coords[1][2]

\* ---------------------------------------------------- documents, stated
PosListTag == gml_ns \o <<"posList">>

\* pairs that the text of a coordinate list stands for
NumPairs(text) == IF Truthy(text) THEN NumTokens(text) \div 2 ELSE 0

IsFirstPosList(nodes, i) ==
    /\ nodes[i].tag = PosListTag
    /\ \A j \in 1..(i - 1) : nodes[j].tag # PosListTag

\* the first coordinate list among the nodes stands for at least 3 pairs
Qualifies(nodes) ==
    \E i \in 1..Len(nodes) : IsFirstPosList(nodes, i) /\ NumPairs(nodes[i].text) >= 3

RECURSIVE Flat(_)
Flat(seqs) == IF seqs = <<>> THEN <<>> ELSE Head(seqs) \o Flat(Tail(seqs))

\* every node beneath the root, in document order
NodesBeneath(root) ==
    root.nodes \o Flat([i \in 1..Len(root.elems) |-> root.elems[i].nodes])

AllTokensNumeric(root) ==
    \A i \in 1..Len(NodesBeneath(root)) :
        LET n == NodesBeneath(root)[i] IN
        (n.tag = PosListTag /\ Truthy(n.text)) => AllNumeric(n.text)

\* positions of the BldA elements beneath the root that qualify
QualIdx(root) ==
    {i \in 1..Len(root.elems) :
        root.elems[i].tag = BldATag /\ Qualifies(root.elems[i].nodes)}

KthQual(root, k) ==
    CHOOSE i \in QualIdx(root) : Cardinality({j \in QualIdx(root) : j <= i}) = k

FirstPosListText(nodes) ==
    nodes[CHOOSE i \in 1..Len(nodes) : IsFirstPosList(nodes, i)].text

RingMatches(root, features) ==
    \A k \in 1..Len(features) :
        k <= Cardinality(QualIdx(root)) =>
            Len(features[k].geometry.coordinates[1]) =
                NumPairs(FirstPosListText(root.elems[KthQual(root, k)].nodes))

RootQualifies(root) == root.tag = BldATag /\ Qualifies(NodesBeneath(root))

\* C2 as claimed: in a well-formed document with numeric coordinate tokens
\* the number of features is the number of BldA elements of the document,
\* its root element included, whose first coordinate list has at least 3
\* pairs.
C2_AnyBldA ==
    (pc = "xml_done" /\ xml_doc.wellformed /\ AllTokensNumeric(xml_doc.root)) =>
        /\ ~xml_result.raised
        /\ Len(xml_result.features) =
               Cardinality(QualIdx(xml_doc.root))
                   + (IF RootQualifies(xml_doc.root) THEN 1 ELSE 0)

\* C2 amended: in a well-formed document with numeric coordinate tokens the
\* number of features is the number of BldA elements beneath the root whose
\* first coordinate list has at least 3 pairs, feature k carrying the ring
\* of the k-th such element; an element with fewer pairs gives no feature.
C2_BeneathRoot ==
    (pc = "xml_done" /\ xml_doc.wellformed /\ AllTokensNumeric(xml_doc.root)) =>
        /\ ~xml_result.raised
        /\ Len(xml_result.features) = Cardinality(QualIdx(xml_doc.root))
        /\ RingMatches(xml_doc.root, xml_result.features)

\* scenario A: a 4-point and a 2-point building, one feature
C2_Witness ==
    /\ pc = "xml_done"
    /\ xml_doc.wellformed
    /\ xml_doc.root.tag = DatasetTag
    /\ xml_doc.root.elems = <<BldGoodB, BldShort>>
    /\ Len(xml_result.features) = 1
    /\ Len(xml_result.features[1].geometry.coordinates[1]) = 4

\* local name of a tag: what follows the namespace
LocalName(tag) == <<tag[Len(tag)]>>

LastChildText(nodes, name) ==
    nodes[CHOOSE i \in 1..Len(nodes) :
            /\ nodes[i].direct /\ LocalName(nodes[i].tag) = name
            /\ \A j \in (i + 1)..Len(nodes) :
                   ~(nodes[j].direct /\ LocalName(nodes[j].tag) = name)].text

ChildrenStored(building, properties) ==
    \A i \in 1..Len(building.nodes) :
        LET child == building.nodes[i] IN
        (child.direct /\ LocalName(child.tag) \in AllowList) =>
            /\ LocalName(child.tag) \in DOMAIN properties
            /\ properties[LocalName(child.tag)] =
                   LastChildText(building.nodes, LocalName(child.tag))

\* C4: every direct child of a feature's building element whose local name
\* (the tag without its namespace) is fid, type or orgGILvl has its text
\* stored under that name, also when the child is namespace-qualified and
\* also when the text is absent or empty.
C4_ChildrenStored ==
    (pc = "xml_done" /\ xml_doc.wellformed) =>
        \A k \in 1..Len(xml_result.features) :
            ChildrenStored(xml_doc.root.elems[KthQual(xml_doc.root, k)],
                           xml_result.features[k].properties)

\* ----------------------------------------------------- archives, stated
EndsIn(name, suffix) == Len(name) > 0 /\ name[Len(name)] = suffix
HasMarker(name) == "-BldA-" \in {name[i] : i \in 1..Len(name)}
BuildingName(name) == HasMarker(name) /\ EndsIn(name, ".xml")
ZipName(name) == EndsIn(name, ".zip")

Readable(content) == content.kind = "zip"

\* the archive being walked, and its entries when it is readable
Current == uploaded_files[idx + 1]
CurrentEntries == IF Readable(Current.data) THEN Current.data.entries ELSE <<>>

AnyZipName(entries) == \E i \in 1..Len(entries) : ZipName(entries[i].name)
AnyBuildingName(entries) == \E i \in 1..Len(entries) : BuildingName(entries[i].name)

\* what one entry holds for archive X when it is read as a building document
EntryFeatures(entry, X) ==
    IF entry.content.kind = "xml"
    THEN LET r == ParseBuildingXml(entry.content.doc, X) IN
         IF r.raised THEN <<>> ELSE r.features
    ELSE <<>>

\* the building documents among the entries, in directory order
BuildingFeatures(entries, X) ==
    Flat([i \in 1..Len(entries) |->
            IF BuildingName(entries[i].name) THEN EntryFeatures(entries[i], X) ELSE <<>>])

\* the sub-archives among the entries, in directory order
NestedFeatures(entries, X) ==
    Flat([i \in 1..Len(entries) |->
            IF ZipName(entries[i].name) /\ Readable(entries[i].content)
            THEN BuildingFeatures(entries[i].content.entries, X) ELSE <<>>])

LastLog == st_log[Len(st_log)]

\* C1: a readable archive is walked by priority: (a) with any name ending in
\* .zip the features are those of the -BldA- .xml entries of the
\* sub-archives and top-level XML adds nothing; (b) otherwise, with any
\* top-level -BldA- .xml entry, the features are those of exactly these
\* entries; (c) otherwise the result is empty and a warning is recorded.
C1_Branches ==
    (pc = "walk_return" /\ Readable(Current.data)) =>
        /\ AnyZipName(CurrentEntries) =>
               walk_features = NestedFeatures(CurrentEntries, Current.name)
        /\ (~AnyZipName(CurrentEntries) /\ AnyBuildingName(CurrentEntries)) =>
               walk_features = BuildingFeatures(CurrentEntries, Current.name)
        /\ (~AnyZipName(CurrentEntries) /\ ~AnyBuildingName(CurrentEntries)) =>
               /\ walk_features = <<>>
               /\ st_log # <<>>
               /\ LastLog = Log("warning", "no_building_data", Current.name)

\* a walk has returned the features of a sub-archive although a top-level
\* building document with features stands beside it
C1_Witness ==
    /\ pc = "walk_return"
    /\ Readable(Current.data)
    /\ \E i, j \in 1..Len(CurrentEntries) :
          /\ ZipName(CurrentEntries[i].name)
          /\ BuildingName(CurrentEntries[j].name)
          /\ EntryFeatures(CurrentEntries[j], Current.name) # <<>>
    /\ walk_features # <<>>
    /\ walk_features = NestedFeatures(CurrentEntries, Current.name)

SourceKey == <<"source_file">>

HasSource(f, X) ==
    SourceKey \in DOMAIN f.properties /\ f.properties[SourceKey] = X

\* C5: every feature the walker returns for the archive named X has
\* source_file = X, from a direct entry or from a sub-archive.
C5_Provenance ==
    (pc = "walk_return") =>
        \A k \in 1..Len(walk_features) : HasSource(walk_features[k], Current.name)

\* the second archive of a batch returns features of direct entries after
\* the first returned features of a sub-archive
C5_Witness ==
    /\ pc = "walk_return"
    /\ idx = 1
    /\ Readable(uploaded_files[1].data)
    /\ AnyZipName(uploaded_files[1].data.entries)
    /\ all_features # <<>>
    /\ ~AnyZipName(CurrentEntries)
    /\ walk_features # <<>>
    /\ Current.name # uploaded_files[1].name

\* what the walk of one uploaded archive yields
WalkOf(upload) ==
    IF ~Readable(upload.data) THEN <<>>
    ELSE IF AnyZipName(upload.data.entries)
         THEN NestedFeatures(upload.data.entries, upload.name)
         ELSE BuildingFeatures(upload.data.entries, upload.name)

\* where the block of archive i starts in the merged list
RECURSIVE Offset(_)
Offset(i) == IF i <= 1 THEN 0 ELSE Offset(i - 1) + Len(WalkOf(uploaded_files[i - 1]))

\* C6: after n archives the merged list is walk(A1) ++ ... ++ walk(An): its
\* length is the sum of the counts, the features of Ai are one block placed
\* before that of Aj for i < j, each block has its archive's provenance and
\* nothing is dropped or reordered.
C6_Concatenation ==
    (pc \in {"main_loop", "done"}) =>
        /\ Len(all_features) = Offset(idx + 1)
        /\ \A i \in 1..idx :
               \A k \in 1..Len(WalkOf(uploaded_files[i])) :
                   /\ all_features[Offset(i) + k] = WalkOf(uploaded_files[i])[k]
                   /\ HasSource(all_features[Offset(i) + k], uploaded_files[i].name)

\* a batch of two archives, both with features, has been merged
C6_Witness ==
    /\ pc = "done"
    /\ Len(uploaded_files) = 2
    /\ WalkOf(uploaded_files[1]) # <<>>
    /\ WalkOf(uploaded_files[2]) # <<>>
    /\ Len(all_features) > Len(WalkOf(uploaded_files[1]))
    /\ geojson_data.features = all_features

IsPrefix(p, q) == Len(p) <= Len(q) /\ SubSeq(q, 1, Len(p)) = p
IsSuffix(p, q) == Len(p) <= Len(q) /\ SubSeq(q, Len(q) - Len(p) + 1, Len(q)) = p

LogIndices(site) == {i \in 1..Len(st_log) : st_log[i].site = site}

IsMalformedDoc(e) ==
    BuildingName(e.name) /\ e.content.kind = "xml" /\ ~e.content.doc.wellformed

\* a building document that parses and whose coordinate tokens are numbers
IsSoundDoc(e) ==
    /\ BuildingName(e.name)
    /\ e.content.kind = "xml"
    /\ e.content.doc.wellformed
    /\ AllTokensNumeric(e.content.doc.root)

\* position of the sub-archive being walked among the entries of the archive
SubPos ==
    CHOOSE p \in 1..Len(CurrentEntries) : CurrentEntries[p].name = zip_files[sub_i]

SoundDocs(entries) == SelectSeq(entries, IsSoundDoc)

MalformedCount(entries) ==
    Cardinality({i \in 1..Len(entries) : IsMalformedDoc(entries[i])})

SubArchivesUpTo(p) ==
    {i \in 1..p : ZipName(CurrentEntries[i].name) /\ Readable(CurrentEntries[i].content)}

\* C7: when a sub-archive holds a malformed building document beside sound
\* ones, parse_building_xml returns nothing for the malformed one (st.error,
\* no exception for the walker to report) and the sub-archive has
\* contributed exactly the features of the sound documents, in order.
C7_MalformedSkipped ==
    ( /\ pc = "walk_subdoc"
      /\ doc_i > Len(building_files)
      /\ \E i \in 1..Len(sub_zip.entries) : IsMalformedDoc(sub_zip.entries[i])
      /\ \A i \in 1..Len(sub_zip.entries) :
             BuildingName(sub_zip.entries[i].name) =>
                 IsMalformedDoc(sub_zip.entries[i]) \/ IsSoundDoc(sub_zip.entries[i]) )
    =>
        /\ walk_features =
               NestedFeatures(SubSeq(CurrentEntries, 1, SubPos - 1), Current.name)
               \o Flat([i \in 1..Len(SoundDocs(sub_zip.entries)) |->
                          ParseBuildingXml(SoundDocs(sub_zip.entries)[i].content.doc,
                                           Current.name).features])
        /\ \A i \in 1..Len(st_log) :
               st_log[i].fn = "warning" => ~IsPrefix(zip_files[sub_i], st_log[i].who)
        /\ idx = 0 =>
               Cardinality(LogIndices("parse_building_xml")) =
                   SumOver(SubArchivesUpTo(SubPos),
                           [i \in SubArchivesUpTo(SubPos) |->
                               MalformedCount(CurrentEntries[i].content.entries)])

\* a sub-archive of three sibling documents, the middle one malformed, is
\* finished with the features of the other two
C7_Witness ==
    /\ pc = "walk_subdoc"
    /\ doc_i > Len(building_files)
    /\ Len(building_files) = 3
    /\ IsSoundDoc(sub_zip.entries[1])
    /\ IsMalformedDoc(sub_zip.entries[2])
    /\ IsSoundDoc(sub_zip.entries[3])
    /\ Len(walk_features) >= 3

IsSubArchive(e) == ZipName(e.name) /\ Readable(e.content)
IsBrokenSubArchive(e) == ZipName(e.name) /\ ~Readable(e.content)

\* C8: a sub-archive that cannot be opened is skipped with a warning, and
\* every other sub-archive of the archive, before or after it, contributes
\* all of its features.
C8_SubArchiveSkipped ==
    ( /\ pc = "walk_return"
      /\ Readable(Current.data)
      /\ \E i \in 1..Len(CurrentEntries) : IsBrokenSubArchive(CurrentEntries[i]) )
    =>
        LET subs == SelectSeq(CurrentEntries, IsSubArchive) IN
        /\ walk_features =
               Flat([i \in 1..Len(subs) |->
                       BuildingFeatures(subs[i].content.entries, Current.name)])
        /\ \A i \in 1..Len(CurrentEntries) :
               IsBrokenSubArchive(CurrentEntries[i]) =>
                   \E j \in 1..Len(st_log) :
                       st_log[j] = Log("warning", "sub_zip", CurrentEntries[i].name)
        /\ \A j \in 1..Len(st_log) :
               ~(st_log[j].site = "main_zip" /\ st_log[j].who = Current.name)

\* a walk has returned the features of a sub-archive listed after one that
\* could not be opened
C8_Witness ==
    /\ pc = "walk_return"
    /\ Readable(Current.data)
    /\ Len(CurrentEntries) = 2
    /\ IsBrokenSubArchive(CurrentEntries[1])
    /\ IsSubArchive(CurrentEntries[2])
    /\ walk_features # <<>>

ReadableUploads == SelectSeq(uploaded_files, LAMBDA u : Readable(u.data))

\* C9: no exception leaves extract_and_convert_building_files, whatever the
\* bytes; an input that is not an archive returns no feature (st.error with
\* its name), and the batch goes through every other input, whose features
\* all reach the merged list.
C9_NothingEscapes ==
    /\ ~escaped
    /\ pc # "crashed"
    /\ (pc = "walk_return" /\ ~Readable(Current.data)) =>
           /\ walk_features = <<>>
           /\ st_log # <<>>
           /\ LastLog = Log("error", "main_zip", Current.name)
    /\ pc = "done" =>
           /\ idx = Len(uploaded_files)
           /\ all_features =
                  Flat([i \in 1..Len(ReadableUploads) |-> WalkOf(ReadableUploads[i])])

\* a batch whose first input is not an archive has ended with the features
\* of its second input
C9_Witness ==
    /\ pc = "done"
    /\ Len(uploaded_files) = 2
    /\ ~Readable(uploaded_files[1].data)
    /\ Readable(uploaded_files[2].data)
    /\ all_features # <<>>

\* the building entries the walk of a readable archive reads, in order
ReadEntries(entries) ==
    IF AnyZipName(entries)
    THEN LET subs == SelectSeq(entries, IsSubArchive) IN
         Flat([i \in 1..Len(subs) |->
                 SelectSeq(subs[i].content.entries, LAMBDA e : BuildingName(e.name))])
    ELSE SelectSeq(entries, LAMBDA e : BuildingName(e.name))

HasFirstPosList(nodes) == \E i \in 1..Len(nodes) : IsFirstPosList(nodes, i)

\* a token that float() is applied to is not a number
PairedBad(text) ==
    \E k \in 1..(2 * (NumTokens(text) \div 2)) :
        \E i \in 1..Len(TokenAt(text, k)) : TokenAt(text, k)[i] \notin Digits

IsBadElement(e) ==
    /\ e.tag = BldATag
    /\ HasFirstPosList(e.nodes)
    /\ Truthy(FirstPosListText(e.nodes))
    /\ PairedBad(FirstPosListText(e.nodes))

\* the element's coordinate list decodes, to at least 3 pairs
IsGoodElement(e) ==
    /\ e.tag = BldATag
    /\ HasFirstPosList(e.nodes)
    /\ Truthy(FirstPosListText(e.nodes))
    /\ ~PairedBad(FirstPosListText(e.nodes))
    /\ NumPairs(FirstPosListText(e.nodes)) >= 3

HasBadElement(e) ==
    /\ e.content.kind = "xml"
    /\ e.content.doc.wellformed
    /\ \E i \in 1..Len(e.content.doc.root.elems) : IsBadElement(e.content.doc.root.elems[i])

\* C10 as claimed: a non-numeric coordinate token aborts only its own
\* building element; every other element of that document whose coordinate
\* list decodes to at least 3 pairs has its feature in the result.
C10_OnlyElementAborted ==
    (pc = "walk_return" /\ Readable(Current.data)) =>
        \A d \in 1..Len(ReadEntries(CurrentEntries)) :
            LET e == ReadEntries(CurrentEntries)[d] IN
            HasBadElement(e) =>
                \A i \in 1..Len(e.content.doc.root.elems) :
                    IsGoodElement(e.content.doc.root.elems[i]) =>
                        \E k \in 1..Len(walk_features) :
                            /\ HasSource(walk_features[k], Current.name)
                            /\ walk_features[k].geometry.coordinates[1] =
                                   ParseCoordinates(FirstPosListText(
                                       e.content.doc.root.elems[i].nodes)).coords

\* C10 amended: a non-numeric token that float() is applied to aborts the
\* whole document: the ValueError leaves parse_building_xml, is caught per
\* document with a warning, the document contributes no feature, and every
\* other document read by the walk, before or after, contributes its own.
C10_DocumentAborted ==
    ( /\ pc = "walk_return"
      /\ Readable(Current.data)
      /\ \E d \in 1..Len(ReadEntries(CurrentEntries)) :
             HasBadElement(ReadEntries(CurrentEntries)[d]) )
    =>
        LET read == ReadEntries(CurrentEntries) IN
        /\ walk_features =
               Flat([d \in 1..Len(read) |->
                       IF HasBadElement(read[d]) \/ read[d].content.kind # "xml"
                       THEN <<>>
                       ELSE ParseBuildingXml(read[d].content.doc, Current.name).features])
        /\ \A d \in 1..Len(read) :
               HasBadElement(read[d]) =>
                   \E j \in 1..Len(st_log) :
                       /\ st_log[j].fn = "warning"
                       /\ st_log[j].site = "document"
                       /\ IsSuffix(read[d].name, st_log[j].who)

\* a sub-archive whose second of three documents has a non-numeric token
\* has been walked: the documents before and after it gave their features
C10_Witness ==
    /\ pc = "walk_return"
    /\ Readable(Current.data)
    /\ Len(CurrentEntries) = 1
    /\ Len(ReadEntries(CurrentEntries)) = 3
    /\ ~HasBadElement(ReadEntries(CurrentEntries)[1])
    /\ HasBadElement(ReadEntries(CurrentEntries)[2])
    /\ ~HasBadElement(ReadEntries(CurrentEntries)[3])
    /\ Len(walk_features) = 3

\* ------------------------------------------------------ order, stated
\* the ring a coordinate text stands for, by token position
Ring(text) ==
    [k \in 1..NumPairs(text) |->
        <<Numeral(TokenAt(text, 2 * k)), Numeral(TokenAt(text, 2 * k - 1))>>]

\* a building document that contributes: it is read, parses and decodes
Contributes(e) ==
    /\ BuildingName(e.name)
    /\ e.content.kind = "xml"
    /\ e.content.doc.wellformed
    /\ ~HasBadElement(e)

\* the documents listed under sub-archive s; s = 0 is the archive itself
DocsOf(entries, s) == IF s = 0 THEN entries ELSE entries[s].content.entries

\* sub-archive positions the walk of the entries goes through
SubIndices(entries) ==
    IF AnyZipName(entries)
    THEN {s \in 1..Len(entries) : IsSubArchive(entries[s])}
    ELSE {0}

\* <<sub-archive index, entry index, element index>> of every building
\* element that gives a feature
Origins(entries) ==
    UNION {UNION {{<<s, d, b>> :
                      b \in {c \in 1..Len(DocsOf(entries, s)[d].content.doc.root.elems) :
                                IsGoodElement(DocsOf(entries, s)[d].content.doc.root.elems[c])}} :
                  d \in {x \in 1..Len(DocsOf(entries, s)) :
                            Contributes(DocsOf(entries, s)[x])}} :
           s \in SubIndices(entries)}

LexLess(t, u) ==
    \/ t[1] < u[1]
    \/ t[1] = u[1] /\ t[2] < u[2]
    \/ t[1] = u[1] /\ t[2] = u[2] /\ t[3] < u[3]

Rank(T, t) == Cardinality({u \in T : LexLess(u, t)}) + 1

ElementAt(entries, t) == DocsOf(entries, t[1])[t[2]].content.doc.root.elems[t[3]]

StripSource(f) ==
    [f EXCEPT !.properties = [k \in (DOMAIN f.properties) \ {SourceKey} |-> f.properties[k]]]

\* C11: within one archive the features stand in the lexicographic order of
\* (sub-archive index, entry index, element index): the feature of the
\* element with the r-th smallest triple is the r-th of the result; and two
\* walks over the same bytes give the same sequence (up to the archive name
\* recorded as provenance).
C11_Order ==
    /\ (pc = "walk_return" /\ Readable(Current.data)) =>
           LET T == Origins(CurrentEntries) IN
           /\ Len(walk_features) = Cardinality(T)
           /\ \A t \in T :
                  walk_features[Rank(T, t)].geometry.coordinates[1] =
                      Ring(FirstPosListText(ElementAt(CurrentEntries, t).nodes))
    /\ ( /\ pc = "done"
         /\ Len(uploaded_files) = 2
         /\ uploaded_files[1].data = uploaded_files[2].data )
       => \E h \in 0..Len(all_features) :
              /\ Len(all_features) = 2 * h
              /\ \A k \in 1..h :
                     StripSource(all_features[k]) = StripSource(all_features[h + k])

\* a walk over two sub-archives, the first with several documents of
\* several elements, has returned four features with rings of different
\* lengths
C11_Witness ==
    /\ pc = "walk_return"
    /\ Readable(Current.data)
    /\ Cardinality({t[1] : t \in Origins(CurrentEntries)}) = 2
    /\ Cardinality({t[2] : t \in Origins(CurrentEntries)}) >= 2
    /\ Cardinality({t[3] : t \in Origins(CurrentEntries)}) = 2
    /\ Len(walk_features) = 4
    /\ Len(walk_features[1].geometry.coordinates[1]) #
           Len(walk_features[2].geometry.coordinates[1])

\* a single readable archive without any .zip name and without any
\* -BldA- .xml name
NoBuildingData ==
    /\ Len(uploaded_files) = 1
    /\ Readable(uploaded_files[1].data)
    /\ ~AnyZipName(uploaded_files[1].data.entries)
    /\ ~AnyBuildingName(uploaded_files[1].data.entries)

NoErrorLogged == \A j \in 1..Len(st_log) : st_log[j].fn # "error"

\* C12 as claimed: for a single archive with no sub-archive and no building
\* XML the run ends with an empty FeatureCollection (type FeatureCollection,
\* empty features array), a recorded warning and no error.
C12_EmptyCollection ==
    (pc = "done" /\ NoBuildingData) =>
        /\ geojson_data = [type |-> "FeatureCollection", features |-> <<>>]
        /\ \E j \in 1..Len(st_log) : st_log[j].fn = "warning"
        /\ NoErrorLogged
        /\ ~escaped

\* C12 amended: for a single archive with no sub-archive and no building
\* XML the walker returns the empty sequence with a warning naming the
\* archive, no error is raised or reported, and main builds no
\* FeatureCollection at all: it records a second warning instead.
C12_NoCollection ==
    (pc = "done" /\ NoBuildingData) =>
        /\ all_features = <<>>
        /\ geojson_data = NoOutput
        /\ st_log = <<Log("warning", "no_building_data", uploaded_files[1].name),
                      Log("warning", "no_features", <<>>)>>
        /\ NoErrorLogged
        /\ ~escaped

\* the run over a single archive that holds only a road-edge document
\* has ended
C12_Witness ==
    /\ pc = "done"
    /\ NoBuildingData
    /\ Len(uploaded_files[1].data.entries) = 1
    /\ EndsIn(uploaded_files[1].data.entries[1].name, ".xml")
    /\ Len(st_log) = 2

GmlIdAttrib == gml_ns \o <<"id">>
GmlIdKey == <<"gml_id">>

\* C13: a feature whose building element carries the attribute id of the
\* GML namespace (gml:id) has the attribute's value in its properties under
\* the key gml_id, a key that is none of the allow-listed child names.
C13_GmlIdStored ==
    (pc = "xml_done" /\ xml_doc.wellformed) =>
        \A k \in 1..Len(xml_result.features) :
            LET building == xml_doc.root.elems[KthQual(xml_doc.root, k)] IN
            \A a \in building.attrib :
                a[1] = GmlIdAttrib =>
                    /\ GmlIdKey \notin AllowList
                    /\ GmlIdKey \in DOMAIN xml_result.features[k].properties
                    /\ xml_result.features[k].properties[GmlIdKey] = a[2]

PermittedKeys == {<<"fid">>, <<"type">>, <<"orgGILvl">>, <<"gml_id">>, <<"source_file">>}
ChildKeys == {<<"fid">>, <<"type">>, <<"orgGILvl">>}

\* C14: the keys of every feature's properties are among fid, type,
\* orgGILvl, gml_id and source_file; a key among fid, type and orgGILvl is
\* there only with the text of a direct child of that local name, so a child
\* of another name and a grandchild of any name contribute nothing.
C14_AllowList ==
    (pc = "xml_done" /\ xml_doc.wellformed) =>
        \A k \in 1..Len(xml_result.features) :
            LET building == xml_doc.root.elems[KthQual(xml_doc.root, k)]
                properties == xml_result.features[k].properties
            IN /\ DOMAIN properties \subseteq PermittedKeys
               /\ \A key \in (DOMAIN properties) \cap ChildKeys :
                      \E i \in 1..Len(building.nodes) :
                          /\ building.nodes[i].direct
                          /\ LocalName(building.nodes[i].tag) = key
                          /\ building.nodes[i].text = properties[key]

\* a feature has come from a building element with a child outside the
\* allow-list and a grandchild named orgGILvl: neither is in its properties
C14_Witness ==
    /\ pc = "xml_done"
    /\ xml_doc.wellformed
    /\ Len(xml_doc.root.elems) = 1
    /\ Len(xml_result.features) = 1
    /\ \E i, j \in 1..Len(xml_doc.root.elems[1].nodes) :
          /\ xml_doc.root.elems[1].nodes[i].direct
          /\ xml_doc.root.elems[1].nodes[i].tag = <<"name">>
          /\ ~xml_doc.root.elems[1].nodes[j].direct
          /\ xml_doc.root.elems[1].nodes[j].tag = <<"orgGILvl">>
    /\ DOMAIN xml_result.features[1].properties = {SourceKey}

NoBadFirstList(root) ==
    \A i \in 1..Len(root.elems) : ~IsBadElement(root.elems[i])

\* C15: the ring of a feature is decoded from the first posList beneath its
\* building element and later lists under the same element are not read; a
\* building element without a posList, or whose first posList has no text,
\* gives no feature and no error, and the other elements give theirs.
C15_FirstList ==
    (pc = "xml_done" /\ xml_doc.wellformed /\ NoBadFirstList(xml_doc.root)) =>
        /\ ~xml_result.raised
        /\ ~xml_result.error
        /\ Len(xml_result.features) = Cardinality(QualIdx(xml_doc.root))
        /\ \A k \in 1..Len(xml_result.features) :
               xml_result.features[k].geometry.coordinates[1] =
                   Ring(FirstPosListText(xml_doc.root.elems[KthQual(xml_doc.root, k)].nodes))

\* a document of an element whose first posList is empty (a full one
\* follows) and an element whose second posList does not decode has given
\* one feature, the ring of the first list of the second element
C15_Witness ==
    /\ pc = "xml_done"
    /\ xml_doc.wellformed
    /\ xml_doc.root.elems = <<BldNoText, BldTwoLists>>
    /\ ~xml_result.raised
    /\ Len(xml_result.features) = 1
    /\ Len(xml_result.features[1].geometry.coordinates[1]) = 3

\* the walker is running: its local list holds features not yet merged
Walking == pc \in {"walk_open", "walk_sub", "walk_subdoc", "walk_direct", "walk_return"}

\* everything accumulated so far in the batch: the merged list, then what
\* the running walk has collected
Accumulated == all_features \o (IF Walking THEN walk_features ELSE <<>>)

\* C16: the accumulated feature sequence is append-only: over every step,
\* whether a document, a sub-archive or an archive ends well or with a caught
\* error, what was accumulated before is a prefix of what is accumulated
\* after.
C16_AppendOnly == [][IsPrefix(Accumulated, Accumulated')]_vars

\* a batch has ended whose first archive gave features and whose second
\* could not be opened: the features of the first are all there
C16_Witness ==
    /\ pc = "done"
    /\ Len(uploaded_files) = 2
    /\ Readable(uploaded_files[1].data)
    /\ ~Readable(uploaded_files[2].data)
    /\ st_log # <<>>
    /\ LastLog = Log("error", "main_zip", uploaded_files[2].name)
    /\ all_features # <<>>
    /\ geojson_data.features = all_features

\* every name ending in .zip is a readable sub-archive, and there is one
AllSubArchivesReadable(data) ==
    /\ Readable(data)
    /\ AnyZipName(data.entries)
    /\ \A i \in 1..Len(data.entries) :
           ZipName(data.entries[i].name) => Readable(data.entries[i].content)

WithoutSource(features) == [k \in 1..Len(features) |-> StripSource(features[k])]

\* C17: on a readable archive with at least one .zip entry, all of them
\* readable, the walker of xml_to_geojson.py and the walker of
\* xml_to_geojson_fast.py without max_files return, without raising, the
\* feature sequence the streamlit_app.py walker returns once source_file is
\* removed from its features.
C17_SameFeatures ==
    (pc = "fast_done" /\ AllSubArchivesReadable(uploaded_files[1].data)) =>
        /\ ~cli_result.raised
        /\ cli_result.features = WithoutSource(walk_features)
        /\ fast_result.max_files = 0 =>
               /\ ~fast_result.raised
               /\ fast_result.features = WithoutSource(walk_features)

\* the three walkers have run on an archive of two readable sub-archives,
\* one of them with a malformed document, and returned four features
C17_Witness ==
    /\ pc = "fast_done"
    /\ AllSubArchivesReadable(uploaded_files[1].data)
    /\ Len(uploaded_files[1].data.entries) = 2
    /\ \A i \in 1..2 : ZipName(uploaded_files[1].data.entries[i].name)
    /\ \E i \in 1..2 : \E d \in 1..Len(uploaded_files[1].data.entries[i].content.entries) :
           IsMalformedDoc(uploaded_files[1].data.entries[i].content.entries[d])
    /\ fast_result.max_files = 0
    /\ Len(walk_features) = 4
    /\ Len(cli_result.features) = 4
    /\ \A k \in 1..4 : HasSource(walk_features[k], uploaded_files[1].name)

TypeOK ==
    /\ pc \in {"coord_call", "coord_done", "xml_call", "xml_done", "main_loop", "walk_open",
               "walk_sub", "walk_subdoc", "walk_direct", "walk_return", "crashed", "done",
               "cli_done", "fast_done"}
    /\ idx \in 0..Len(uploaded_files)
    /\ escaped \in BOOLEAN
    /\ Len(all_features) + Len(walk_features) >= 0
====
